---- MODULE Spec2Model ----
(***************************************************************************)
(* The Order controller (orderController.js), its routes (orderRoutes.js)  *)
(* and the platform index route with its rate limiter (routes/index.js).   *)
(*                                                                         *)
(* Spec        the six controller operations, one request at a time        *)
(* SpecRead    addOrder, findAllOrder, getOrder, getOrderCount             *)
(* SpecUpdate  addOrder, updateOrder, partialUpdateOrder on a small store  *)
(* SpecConc    updateOrder / partialUpdateOrder requests suspended at      *)
(*             their await of dbService.updateOne, interleaved             *)
(* SpecRate    requests passing the router stack of routes/index.js        *)
(***************************************************************************)
EXTENDS Integers, Sequences, FiniteSets, TLC

\* ---------------------------------------------------------------- bounds
MaxUsers == 2
MaxDocs == 2
MaxPage == 2
MaxLimit == 2
MaxInFlight == 2
MaxConcDocs == 1
MaxCallers == 2
MaxReq == 11

\* ------------------------------------------------------------- constants
\* rateLimit({ max:20 })
max == 20

\* A field that is absent from an object (undefined).
NoUser == 0
\* req.params.id is undefined.
NoId == 0
\* req.params.id is a string that is no ObjectId.
MalformedId == -1

Users == 1..MaxUsers
\* Well-formed ObjectIds; the store assigns 1..MaxDocs, so one is never stored.
ObjectIds == 1..(MaxDocs + 1)
Ids == ObjectIds \cup {NoId, MalformedId}

\* req.body of create / update / partial-update. ok: the business fields
\* satisfy the Joi schema; addedBy, updatedBy: client-supplied bookkeeping
\* fields (NoUser: the body does not carry the field).
AllBodies == [ok : BOOLEAN, addedBy : 0..MaxUsers, updatedBy : 0..MaxUsers]
\* The bodies of Spec carry no updatedBy, those of SpecConc no addedBy.
Bodies == {b \in AllBodies : b.updatedBy = NoUser}
ConcBodies == {b \in AllBodies : b.addedBy = NoUser}

\* req.body of list / count: the filter envelope. query (where): NoUser is {},
\* u is {addedBy: u}.
\* Options the request does not use (count only, pagination off) are left at
\* page 1, limit 1.
Options == [page : 1..MaxPage, limit : 1..MaxLimit, pagination : BOOLEAN]
Filters ==
  {f \in [ok : BOOLEAN, query : 0..MaxUsers, options : Options, isCountOnly : BOOLEAN] :
     /\ f.isCountOnly => ~f.options.pagination
     /\ ~f.options.pagination => (f.options.page = 1 /\ f.options.limit = 1)}
\* req.body of count: where, no options.
CountFilters == {f \in Filters : ~f.isCountOnly /\ ~f.options.pagination}

\* docs          the Order collection, in insertion order
\* last          what the latest request did (see Blank)
\* calls         the update requests suspended at await dbService.updateOne
\* lastWriter    per document, the caller whose updateOne was applied last
\* raced         two requests of different callers for the same id were
\*               suspended together and both updateOnes were applied, the
\*               later one's body naming someone else as updatedBy
\* hits          the rate limiter's store: per caller, the hits of the window
\* sentInWindow  per caller, the non-exempt requests sent in the window
\* rl            what the router stack did with the latest request
VARIABLES docs, last, calls, lastWriter, raced, hits, sentInWindow, rl

vars == <<docs, last, calls, lastWriter, raced, hits, sentInWindow, rl>>

\* --------------------------------------------------------------- helpers
Min(a, b) == IF a <= b THEN a ELSE b

\* ObjectId.isValid(req.params.id)
ObjectIdIsValidAlways(id) == TRUE

ObjectIdIsValid(id) == id \in ObjectIds

\* validation.validateParamsWithJoi(candidate, schemaKeys).isValid: fails on a
\* missing required field, a type mismatch or a value out of range.
validateParamsWithJoi(candidate) == candidate.ok

\* validation.validateFilterWithJoi(req.body, findFilterKeys, ...).isValid
validateFilterWithJoi(filter) == filter.ok

\* ------------------------------------------------- the response envelope
\* The response object of one request: first is the envelope delivered
\* ("NONE": none yet), n the number of res.* calls made, threw whether the
\* latest res.* call threw (headers already sent), escaped whether an
\* exception left the controller.
NoRes == [first |-> "NONE", n |-> 0, threw |-> FALSE, escaped |-> FALSE]

\* res.success / res.validationError / res.badRequest / res.recordNotFound /
\* res.internalServerError: the first call delivers its envelope, a later one
\* throws.
Send(res, status) ==
  IF res.first = "NONE"
  THEN [res EXCEPT !.first = status, !.n = @ + 1, !.threw = FALSE]
  ELSE [res EXCEPT !.n = @ + 1, !.threw = TRUE]

\* catch (error) { return res.internalServerError(...) }: an exception thrown
\* by this call is outside the try block and leaves the controller.
Catch(res) ==
  LET r == Send(res, "INTERNAL_SERVER_ERROR")
  IN  [r EXCEPT !.escaped = r.threw]

\* return res.X(...) inside the try block.
Return(res, status) ==
  LET r == Send(res, status)
  IN  IF r.threw THEN Catch(r) ELSE r

\* ------------------------------------------------------------- dbService
\* The documents the query {addedBy: q} (or {} when q = NoUser) matches.
Matches(ds, q) == SelectSeq(ds, LAMBDA d : q = NoUser \/ d.addedBy = q)

\* dbService.count(Order, query)
dbCount(ds, q) == Len(Matches(ds, q))

\* dbService.paginate(Order, query, options)
dbPaginate(ds, q, o) ==
  LET ms == Matches(ds, q)
  IN  [data |-> IF o.pagination
                THEN SubSeq(ms, (o.page - 1) * o.limit + 1, Min(o.page * o.limit, Len(ms)))
                ELSE ms,
       totalRecords |-> Len(ms)]

\* The positions dbService.findOne / updateOne with {_id: id} may select:
\* 0 is no document. A missing id leaves the filter without a usable _id,
\* which matches no document or the first one.
MatchSet(ds, id) ==
  IF id = NoId
  THEN {0} \cup (IF Len(ds) > 0 THEN {1} ELSE {})
  ELSE IF \E i \in DOMAIN ds : ds[i].id = id
       THEN {i \in DOMAIN ds : ds[i].id = id}
       ELSE {0}

\* The update of one document by the fields the patch carries.
ApplyPatch(d, patch) ==
  [d EXCEPT !.addedBy = IF patch.addedBy # NoUser THEN patch.addedBy ELSE @,
            !.updatedBy = IF patch.updatedBy # NoUser THEN patch.updatedBy ELSE @]

\* dbService.updateOne(Order, {_id}, patch) on the selected position m.
dbUpdateOne(ds, m, patch) ==
  IF m = 0 THEN ds ELSE [ds EXCEPT ![m] = ApplyPatch(ds[m], patch)]

\* dbService.create(Order, new Order(dataToCreate))
dbCreate(ds, data) ==
  Append(ds, [id |-> Len(ds) + 1, addedBy |-> data.addedBy, updatedBy |-> data.updatedBy])

\* ------------------------------------------------ request data assembly
\* addOrder: dataToCreate = {...req.body}; dataToCreate.addedBy = req.user.id
addOrderDataBodyWins(body, u) ==
  [body EXCEPT !.addedBy = IF body.addedBy # NoUser THEN body.addedBy ELSE u]

addOrderData(body, u) == [body EXCEPT !.addedBy = u]

\* updateOrder: dataToUpdate = {...req.body, updatedBy: req.user.id}
updateOrderDataBodyWins(body, u) ==
  [body EXCEPT !.updatedBy = IF body.updatedBy # NoUser THEN body.updatedBy ELSE u]

updateOrderData(body, u) == [body EXCEPT !.updatedBy = u]

\* partialUpdateOrder: delete req.body['addedBy']
deleteAddedByNot(body) == body

deleteAddedBy(body) == [body EXCEPT !.addedBy = NoUser]

\* partialUpdateOrder: dataToUpdate = {...req.body, updatedBy: req.user.id}
partialUpdateOrderData(body, u) == [deleteAddedBy(body) EXCEPT !.updatedBy = u]

\* ------------------------------------------------------- request record
\* What the latest request did. user: the caller of an addOrder; valid: "skipped" | "pass" | "fail";
\* storeOps: the number of dbService calls issued; op: which one; threw: the
\* store call threw; matched: the position the store selected (0: none);
\* changed: the collection differs from before the request.
Blank ==
  [handler |-> "none", user |-> NoUser, id |-> NoId, valid |-> "skipped",
   storeOps |-> 0, op |-> "none", threw |-> FALSE, matched |-> 0,
   changed |-> FALSE, res |-> NoRes, bodyAddedBy |-> NoUser,
   bodyUpdatedBy |-> NoUser, isCountOnly |-> FALSE, nMatch |-> 0,
   page |-> <<>>, data |-> <<>>, total |-> 0]

Init ==
  /\ docs = <<>>
  /\ last = Blank
  /\ calls = {}
  /\ lastWriter = [i \in 1..MaxDocs |-> NoUser]
  /\ raced = FALSE
  /\ hits = [c \in 1..MaxCallers |-> 0]
  /\ sentInWindow = [c \in 1..MaxCallers |-> 0]
  /\ rl = [caller |-> 0, url |-> <<>>, outcome |-> "none", nth |-> 0, counted |-> 0]

\* ------------------------------------------------------------ controller
\* const addOrder = async (req, res) => {...}
addOrder(u, body, throws) ==
  LET valid == validateParamsWithJoi(body)
      dataToCreate == addOrderData(body, u)
      created == valid /\ ~throws
      after == IF created THEN dbCreate(docs, dataToCreate) ELSE docs
  IN  /\ throws => valid
      /\ created => Len(docs) < MaxDocs
      /\ docs' = after
      /\ last' = [Blank EXCEPT
                    !.handler = "addOrder", !.user = u,
                    !.valid = IF valid THEN "pass" ELSE "fail",
                    !.storeOps = IF valid THEN 1 ELSE 0,
                    !.op = IF valid THEN "create" ELSE "none",
                    !.threw = valid /\ throws,
                    !.matched = IF created THEN Len(after) ELSE 0,
                    !.changed = (after # docs),
                    !.bodyAddedBy = body.addedBy,
                    !.bodyUpdatedBy = body.updatedBy,
                    !.data = IF created THEN <<after[Len(after)]>> ELSE <<>>,
                    !.res = IF ~valid THEN Return(NoRes, "VALIDATION_ERROR")
                            ELSE IF throws THEN Catch(NoRes)
                            ELSE Return(NoRes, "SUCCESS")]
      /\ UNCHANGED <<calls, lastWriter, raced, hits, sentInWindow, rl>>

\* if (!foundOrders || !foundOrders.data || !foundOrders.data.length)
isEmptyResultNever(found) == FALSE

isEmptyResult(found) == Len(found.data) = 0

\* const findAllOrder = async (req,res) => {...}
findAllOrder(f, throws) ==
  LET valid == validateFilterWithJoi(f)
      query == f.query
      found == dbPaginate(docs, query, f.options)
      counting == valid /\ f.isCountOnly
      listing == valid /\ ~f.isCountOnly
  IN  /\ throws => valid
      /\ last' = [Blank EXCEPT
                    !.handler = "findAllOrder",
                    !.valid = IF valid THEN "pass" ELSE "fail",
                    !.storeOps = IF valid THEN 1 ELSE 0,
                    !.op = IF counting THEN "count" ELSE IF listing THEN "paginate" ELSE "none",
                    !.threw = valid /\ throws,
                    !.isCountOnly = f.isCountOnly,
                    !.nMatch = Len(Matches(docs, query)),
                    !.page = IF listing /\ ~throws THEN found.data ELSE <<>>,
                    !.data = IF listing /\ ~throws /\ ~isEmptyResult(found) THEN found.data ELSE <<>>,
                    !.total = IF valid /\ ~throws
                              THEN (IF counting THEN dbCount(docs, query) ELSE found.totalRecords)
                              ELSE 0,
                    !.res = IF ~valid THEN Return(NoRes, "VALIDATION_ERROR")
                            ELSE IF throws THEN Catch(NoRes)
                            ELSE IF counting THEN Return(NoRes, "SUCCESS")
                            ELSE IF isEmptyResult(found) THEN Return(NoRes, "RECORD_NOT_FOUND")
                            ELSE Return(NoRes, "SUCCESS")]
      /\ UNCHANGED <<docs, calls, lastWriter, raced, hits, sentInWindow, rl>>

\* const getOrder = async (req,res) => {...}
getOrder(id, throws, m) ==
  LET wellFormed == ObjectIdIsValid(id)
      foundOrder == IF wellFormed /\ ~throws THEN m ELSE 0
  IN  /\ throws => wellFormed
      /\ m \in (IF wellFormed THEN MatchSet(docs, id) ELSE {0})
      /\ last' = [Blank EXCEPT
                    !.handler = "getOrder", !.id = id,
                    !.valid = IF wellFormed THEN "pass" ELSE "fail",
                    !.storeOps = IF wellFormed THEN 1 ELSE 0,
                    !.op = IF wellFormed THEN "findOne" ELSE "none",
                    !.threw = wellFormed /\ throws,
                    !.matched = foundOrder,
                    !.data = IF foundOrder # 0 THEN <<docs[foundOrder]>> ELSE <<>>,
                    !.res = IF ~wellFormed THEN Return(NoRes, "VALIDATION_ERROR")
                            ELSE IF throws THEN Catch(NoRes)
                            ELSE IF foundOrder = 0 THEN Return(NoRes, "RECORD_NOT_FOUND")
                            ELSE Return(NoRes, "SUCCESS")]
      /\ UNCHANGED <<docs, calls, lastWriter, raced, hits, sentInWindow, rl>>

\* const getOrderCount = async (req,res) => {...}
getOrderCount(f, throws) ==
  LET valid == validateFilterWithJoi(f)
      where == f.query
  IN  /\ throws => valid
      /\ last' = [Blank EXCEPT
                    !.handler = "getOrderCount",
                    !.valid = IF valid THEN "pass" ELSE "fail",
                    !.storeOps = IF valid THEN 1 ELSE 0,
                    !.op = IF valid THEN "count" ELSE "none",
                    !.threw = valid /\ throws,
                    !.nMatch = Len(Matches(docs, where)),
                    !.total = IF valid /\ ~throws THEN dbCount(docs, where) ELSE 0,
                    !.res = IF ~valid THEN Return(NoRes, "VALIDATION_ERROR")
                            ELSE IF throws THEN Catch(NoRes)
                            ELSE Return(NoRes, "SUCCESS")]
      /\ UNCHANGED <<docs, calls, lastWriter, raced, hits, sentInWindow, rl>>

\* The part of updateOrder and partialUpdateOrder from the validation of
\* dataToUpdate to the response: res0 is the response object on entry.
UpdateRecord(h, u, id, body, dataToUpdate, res0, throws, m) ==
  LET valid == validateParamsWithJoi(dataToUpdate)
      issued == valid
      after == IF issued /\ ~throws THEN dbUpdateOne(docs, m, dataToUpdate) ELSE docs
      updatedOrder == IF issued /\ ~throws THEN m ELSE 0
  IN  [Blank EXCEPT
         !.handler = h, !.id = id,
         !.valid = IF valid THEN "pass" ELSE "fail",
         !.storeOps = IF issued THEN 1 ELSE 0,
         !.op = IF issued THEN "updateOne" ELSE "none",
         !.threw = issued /\ throws,
         !.matched = updatedOrder,
         !.changed = (after # docs),
         !.bodyAddedBy = body.addedBy,
         !.bodyUpdatedBy = body.updatedBy,
         !.data = IF updatedOrder # 0 THEN <<after[updatedOrder]>> ELSE <<>>,
         !.res = IF ~valid THEN Return(res0, "VALIDATION_ERROR")
                 ELSE IF throws THEN Catch(res0)
                 ELSE IF updatedOrder = 0 THEN Return(res0, "RECORD_NOT_FOUND")
                 ELSE Return(res0, "SUCCESS")]

UpdateDocs(dataToUpdate, throws, m) ==
  IF validateParamsWithJoi(dataToUpdate) /\ ~throws
  THEN dbUpdateOne(docs, m, dataToUpdate)
  ELSE docs

\* const updateOrder = async (req,res) => {...}
updateOrder(u, id, body, throws, m) ==
  LET dataToUpdate == updateOrderData(body, u)
  IN  /\ throws => validateParamsWithJoi(dataToUpdate)
      /\ m \in MatchSet(docs, id)
      /\ docs' = UpdateDocs(dataToUpdate, throws, m)
      /\ last' = UpdateRecord("updateOrder", u, id, body, dataToUpdate, NoRes, throws, m)
      /\ UNCHANGED <<calls, lastWriter, raced, hits, sentInWindow, rl>>

\* if (!req.params.id){ res.badRequest(...) }  -- no return
idCheck(id) == IF id = NoId THEN Send(NoRes, "BAD_REQUEST") ELSE NoRes

\* const partialUpdateOrder = async (req,res) => {...}
partialUpdateOrder(u, id, body, throws, m) ==
  LET res0 == idCheck(id)
      dataToUpdate == partialUpdateOrderData(body, u)
  IN  /\ throws => validateParamsWithJoi(dataToUpdate)
      /\ m \in MatchSet(docs, id)
      /\ docs' = UpdateDocs(dataToUpdate, throws, m)
      /\ last' = UpdateRecord("partialUpdateOrder", u, id, body, dataToUpdate, res0, throws, m)
      /\ UNCHANGED <<calls, lastWriter, raced, hits, sentInWindow, rl>>

Next ==
  \/ \E u \in Users, body \in Bodies, throws \in BOOLEAN : addOrder(u, body, throws)
  \/ \E f \in Filters, throws \in BOOLEAN : findAllOrder(f, throws)
  \/ \E id \in Ids, throws \in BOOLEAN, m \in 0..MaxDocs : getOrder(id, throws, m)
  \/ \E f \in CountFilters, throws \in BOOLEAN : getOrderCount(f, throws)
  \/ \E u \in Users, id \in Ids, body \in Bodies, throws \in BOOLEAN, m \in 0..MaxDocs :
       updateOrder(u, id, body, throws, m)
  \/ \E u \in Users, id \in Ids, body \in Bodies, throws \in BOOLEAN, m \in 0..MaxDocs :
       partialUpdateOrder(u, id, body, throws, m)

Spec == Init /\ [][Next]_vars

\* ------------------------------------------- updates suspended at await
ConcIds == 1..(MaxConcDocs + 1)

\* dataToUpdate as the handler of a suspended request assembled it.
CallData(c) ==
  IF c.handler = "updateOrder"
  THEN updateOrderData(c.body, c.user)
  ELSE partialUpdateOrderData(c.body, c.user)

\* addOrder while updates are suspended.
addOrderConc(u, body, throws) ==
  /\ Len(docs) < MaxConcDocs
  /\ addOrder(u, body, throws)

\* A request of handler h as it stands at await dbService.updateOne(...).
Call(h, u, id, body) ==
  [handler |-> h, user |-> u, id |-> id, body |-> body, overtaken |-> FALSE]

\* The validation of dataToUpdate passed: the request suspends at the await.
Suspends(c) == validateParamsWithJoi(CallData(c))

\* The response to a request that does not reach the await.
StartRecord(c) ==
  [Blank EXCEPT !.handler = c.handler, !.valid = "fail",
                !.res = Return(IF c.handler = "partialUpdateOrder" THEN idCheck(c.id) ELSE NoRes,
                               "VALIDATION_ERROR")]

\* updateOrder up to await dbService.updateOne(...): a body that fails
\* validation is answered at once, any other suspends.
updateOrderStart(u, id, body) ==
  LET c == Call("updateOrder", u, id, body)
  IN  /\ Suspends(c) => (Cardinality(calls) < MaxInFlight /\ c \notin calls)
      /\ calls' = IF Suspends(c) THEN calls \cup {c} ELSE calls
      /\ last' = IF Suspends(c) THEN last ELSE StartRecord(c)
      /\ UNCHANGED <<docs, lastWriter, raced, hits, sentInWindow, rl>>

\* partialUpdateOrder up to await dbService.updateOne(...).
partialUpdateOrderStart(u, id, body) ==
  LET c == Call("partialUpdateOrder", u, id, body)
  IN  /\ Suspends(c) => (Cardinality(calls) < MaxInFlight /\ c \notin calls)
      /\ calls' = IF Suspends(c) THEN calls \cup {c} ELSE calls
      /\ last' = IF Suspends(c) THEN last ELSE StartRecord(c)
      /\ UNCHANGED <<docs, lastWriter, raced, hits, sentInWindow, rl>>

\* The store applies the updateOne of a suspended request (or throws) and the
\* handler resumes to its response.
updateOneComplete(c, throws, m) ==
  LET res0 == IF c.handler = "partialUpdateOrder" THEN idCheck(c.id) ELSE NoRes
      r == UpdateRecord(c.handler, c.user, c.id, c.body, CallData(c), res0, throws, m)
      applied == ~throws /\ m # 0
  IN  /\ c \in calls
      /\ m \in MatchSet(docs, c.id)
      /\ calls' = {IF applied /\ d.id = c.id /\ d.user # c.user
                    THEN [d EXCEPT !.overtaken = TRUE] ELSE d : d \in calls \ {c}}
      /\ docs' = UpdateDocs(CallData(c), throws, m)
      /\ lastWriter' = IF applied THEN [lastWriter EXCEPT ![m] = c.user] ELSE lastWriter
      /\ raced' = (raced \/ (/\ applied
                             /\ c.overtaken
                             /\ c.body.updatedBy \notin {NoUser, c.user}))
      /\ last' = [Blank EXCEPT !.handler = r.handler, !.storeOps = r.storeOps, !.res = r.res]
      /\ UNCHANGED <<hits, sentInWindow, rl>>

NextConc ==
  \/ \E u \in Users, throws \in BOOLEAN :
       addOrderConc(u, [ok |-> TRUE, addedBy |-> NoUser, updatedBy |-> NoUser], throws)
  \/ \E u \in Users, id \in ConcIds, body \in ConcBodies : updateOrderStart(u, id, body)
  \/ \E u \in Users, id \in ConcIds, body \in ConcBodies : partialUpdateOrderStart(u, id, body)
  \/ \E c \in calls, throws \in BOOLEAN, m \in 0..MaxConcDocs : updateOneComplete(c, throws, m)

SpecConc == Init /\ [][NextConc]_vars

\* -------------------------------------------------- creation and reads
NextRead ==
  \/ \E u \in Users, body \in Bodies, throws \in BOOLEAN : addOrder(u, body, throws)
  \/ \E f \in Filters, throws \in BOOLEAN : findAllOrder(f, throws)
  \/ \E id \in Ids, throws \in BOOLEAN, m \in 0..MaxDocs : getOrder(id, throws, m)
  \/ \E f \in CountFilters, throws \in BOOLEAN : getOrderCount(f, throws)

SpecRead == Init /\ [][NextRead]_vars

\* ------------------------------------- creation and updates, a small store
UpdateIds == ConcIds \cup {NoId}

NextUpdate ==
  \/ \E u \in Users, body \in Bodies, throws \in BOOLEAN : addOrderConc(u, body, throws)
  \/ \E u \in Users, id \in UpdateIds, body \in Bodies, throws \in BOOLEAN, m \in 0..MaxConcDocs :
       updateOrder(u, id, body, throws, m)
  \/ \E u \in Users, id \in UpdateIds, body \in Bodies, throws \in BOOLEAN, m \in 0..MaxConcDocs :
       partialUpdateOrder(u, id, body, throws, m)

SpecUpdate == Init /\ [][NextUpdate]_vars

\* --------------------------------------------------------- routes/index.js
\* Request URLs as path segments.
OrderUrls ==
  {<<"device", "api", "v1", "order", "create">>, <<"device", "api", "v1", "order", "list">>}
Urls == OrderUrls \cup {<<"admin", "order", "list">>, <<"swagger">>, <<"favicon">>}
Callers == 1..MaxCallers

\* skip: (req) => req.url.includes('/swagger') || req.url.includes('/favicon')
skip(url) == \E i \in DOMAIN url : url[i] \in {"swagger", "favicon"}

\* One pass of a request of caller c through the rateLimiter middleware:
\* a skipped request is passed on uncounted, any other is counted and passed
\* on unless the caller's hits exceed max.
rateLimiter(h, c, url) ==
  IF skip(url)
  THEN [hits |-> h, next |-> TRUE]
  ELSE [hits |-> [h EXCEPT ![c] = @ + 1], next |-> h[c] + 1 <= max]

\* require('./admin/index'): the routes of the admin platform.
adminRoutes(url) == url[1] = "admin"

\* require('./device/v1/index'): mounts the order routes of orderRoutes.js.
deviceRoutes(url) == url \in OrderUrls

\* router.use(rateLimiter, admin); router.use(rateLimiter, device): one request
\* through the router stack.
request(c, url) ==
  LET r1 == rateLimiter(hits, c, url)
      inAdmin == r1.next /\ adminRoutes(url)
      second == r1.next /\ ~inAdmin
      r2 == IF second THEN rateLimiter(r1.hits, c, url) ELSE [hits |-> r1.hits, next |-> FALSE]
      outcome == IF ~r1.next THEN "429"
                 ELSE IF inAdmin THEN "handler"
                 ELSE IF ~r2.next THEN "429"
                 ELSE IF deviceRoutes(url) THEN "handler"
                 ELSE "next"
      nth == IF skip(url) THEN sentInWindow[c] ELSE sentInWindow[c] + 1
  IN  /\ nth <= MaxReq
      /\ hits' = r2.hits
      /\ sentInWindow' = [sentInWindow EXCEPT ![c] = nth]
      /\ rl' = [caller |-> c, url |-> url, outcome |-> outcome, nth |-> nth,
                counted |-> r2.hits[c] - hits[c]]
      /\ UNCHANGED <<docs, last, calls, lastWriter, raced>>

\* windowMs:30 * 60 * 1000: the window ends and the store forgets its hits.
windowExpires ==
  /\ \E c \in Callers : hits[c] > 0
  /\ hits' = [c \in Callers |-> 0]
  /\ sentInWindow' = [c \in Callers |-> 0]
  /\ rl' = [caller |-> 0, url |-> <<>>, outcome |-> "none", nth |-> 0, counted |-> 0]
  /\ UNCHANGED <<docs, last, calls, lastWriter, raced>>

NextRate ==
  \/ \E c \in Callers, url \in Urls : request(c, url)
  \/ windowExpires

SpecRate == Init /\ [][NextRate]_vars

\* ================================================================ claims
UpdateHandlers == {"updateOrder", "partialUpdateOrder"}

\* C1: every addOrder request that stores a document stores it with addedBy
\* equal to the authenticated caller, whatever addedBy the body carried.
C1_AddedByIsCaller ==
  (last.handler = "addOrder" /\ last.changed)
    => (/\ last.matched = Len(docs)
        /\ docs[last.matched].addedBy = last.user)

C1_Witness ==
  /\ last.handler = "addOrder"
  /\ last.res.first = "SUCCESS"
  /\ last.changed
  /\ last.bodyAddedBy \notin {NoUser, last.user}

\* C2: no updateOrder or partialUpdateOrder request, whatever its body,
\* alters the addedBy of a stored document, so under any sequence of them
\* every document keeps the addedBy it was created with.
C2_AddedByNeverAltered ==
  [][last'.handler \in UpdateHandlers
       => (/\ Len(docs') = Len(docs)
           /\ \A i \in DOMAIN docs : docs'[i].addedBy = docs[i].addedBy)]_vars

\* C3: a partialUpdateOrder request whose body carries addedBy leaves the
\* addedBy of every stored document as it was before the request.
C3_PartialUpdateKeepsAddedBy ==
  [][(last'.handler = "partialUpdateOrder" /\ last'.bodyAddedBy # NoUser)
       => (/\ Len(docs') = Len(docs)
           /\ \A i \in DOMAIN docs : docs'[i].addedBy = docs[i].addedBy)]_vars

C3_Witness ==
  /\ last.handler = "partialUpdateOrder"
  /\ last.res.first = "SUCCESS"
  /\ last.matched # 0
  /\ last.bodyAddedBy # NoUser
  /\ last.bodyAddedBy # docs[last.matched].addedBy

\* C4: in addOrder, updateOrder and partialUpdateOrder a request that fails
\* schema validation is answered VALIDATION_ERROR, issues no store operation
\* and leaves the collection unchanged.
C4_InvalidIsValidationErrorNoWrite ==
  (last.handler \in {"addOrder"} \cup UpdateHandlers /\ last.valid = "fail")
    => (/\ last.res.first = "VALIDATION_ERROR"
        /\ last.storeOps = 0
        /\ ~last.changed)

\* C5: partialUpdateOrder without an id ends with BAD_REQUEST and runs nothing
\* after it: no validation, no updateOne, no change to a stored document.
C5_MissingIdRejectsEarly ==
  (last.handler = "partialUpdateOrder" /\ last.id = NoId)
    => (/\ last.res.first = "BAD_REQUEST"
        /\ last.res.n = 1
        /\ last.valid = "skipped"
        /\ last.storeOps = 0
        /\ ~last.changed)

\* C6: every controller operation sends exactly one response envelope and
\* lets no exception out; a store call that throws is answered
\* INTERNAL_SERVER_ERROR.
C6_OneResponseNoEscape ==
  last.handler # "none"
    => (/\ last.res.n = 1
        /\ ~last.res.escaped
        /\ last.threw => last.res.first = "INTERNAL_SERVER_ERROR")

\* C7: within one window each caller's first max (20) requests to non-exempt
\* routes reach their handlers and only later ones are answered 429; requests
\* whose URL contains /swagger or /favicon are neither counted nor rejected.
C7_TwentyPerWindow ==
  /\ (rl.outcome # "none" /\ ~skip(rl.url)) => ((rl.outcome = "429") <=> (rl.nth > max))
  /\ (rl.outcome # "none" /\ skip(rl.url)) => (rl.outcome # "429" /\ rl.counted = 0)

\* The latest request was a findAllOrder with a valid filter, not count
\* only, and dbService.paginate answered.
ListAnswered ==
  /\ last.handler = "findAllOrder"
  /\ last.valid = "pass"
  /\ ~last.isCountOnly
  /\ ~last.threw

\* C8 as stated: findAllOrder with a valid filter, not count only, the store
\* answering: RECORD_NOT_FOUND when the filter matches no document, SUCCESS
\* with the paginated result when it matches at least one.
C8_Original ==
  ListAnswered
    => (/\ last.nMatch = 0 => last.res.first = "RECORD_NOT_FOUND"
        /\ last.nMatch >= 1 => (last.res.first = "SUCCESS" /\ Len(last.data) >= 1))

\* C8 amended: RECORD_NOT_FOUND when the page paginate returns is empty (so
\* whenever the filter matches no document), SUCCESS with that page when the
\* page holds at least one document.
C8_EmptyPageIsNotFound ==
  ListAnswered
    => (/\ last.nMatch = 0 => Len(last.page) = 0
        /\ Len(last.page) = 0 => (last.res.first = "RECORD_NOT_FOUND" /\ last.data = <<>>)
        /\ Len(last.page) >= 1 => (last.res.first = "SUCCESS" /\ last.data = last.page))

C8_Witness ==
  /\ ListAnswered
  /\ last.res.first = "RECORD_NOT_FOUND"
  /\ last.nMatch >= 1

\* C9: getOrder answers a malformed id VALIDATION_ERROR without a store
\* query, a well-formed id of no stored document RECORD_NOT_FOUND, the id of
\* a stored document SUCCESS with that document (the store answering), and
\* leaves the collection unchanged.
C9_GetOrderClassifies ==
  [][last'.handler = "getOrder"
       => (/\ docs' = docs
           /\ last'.id \notin ObjectIds
                => (last'.res.first = "VALIDATION_ERROR" /\ last'.storeOps = 0)
           /\ (last'.id \in ObjectIds /\ ~last'.threw)
                => (/\ last'.storeOps = 1
                    /\ (\A i \in DOMAIN docs : docs[i].id # last'.id)
                         => last'.res.first = "RECORD_NOT_FOUND"
                    /\ \A i \in DOMAIN docs :
                         docs[i].id = last'.id
                           => (last'.res.first = "SUCCESS" /\ last'.data = <<docs[i]>>)))]_vars

C9_Witness ==
  /\ last.handler = "getOrder"
  /\ last.res.first = "SUCCESS"
  /\ Len(docs) = MaxDocs
  /\ last.id = MaxDocs
  /\ last.data = <<docs[MaxDocs]>>

\* C10: however concurrent updateOrder and partialUpdateOrder requests of
\* different callers on one document interleave, each issues one updateOne
\* and the document's updatedBy is the identity of the caller whose updateOne
\* was applied last, whatever updatedBy the bodies carried.
C10_LastWriteWins ==
  /\ \A i \in DOMAIN docs : lastWriter[i] # NoUser => docs[i].updatedBy = lastWriter[i]
  /\ \A c \in calls : CallData(c).updatedBy = c.user
  /\ last.handler \in UpdateHandlers => last.storeOps <= 1

C10_Witness ==
  /\ calls = {}
  /\ raced
  /\ \E i \in DOMAIN docs : lastWriter[i] # NoUser /\ docs[i].updatedBy = lastWriter[i]

====
